---- MODULE Spec2Model ----
(***************************************************************************)
(* Model of bubblemaps-bot (src/bot.py): the Telegram message handler      *)
(* handle_contract with its three fetchers (get_token_data,                *)
(* get_market_data, generate_screenshot), the worker pool IO_EXECUTOR, the *)
(* shared Selenium DRIVER, the temporary screenshot files, and the pure    *)
(* classifier analyze_decentralization.                                    *)
(*                                                                         *)
(* Python's None is modelled per type: a record with present = FALSE for   *)
(* the two dict results, the empty sequence for the screenshot path and    *)
(* the string "None" for strings and for the driver.                       *)
(***************************************************************************)
EXTENDS Integers, Sequences, FiniteSets, TLC

\* ------------------------------------------------------------------ bounds

\* Updates delivered to the bot in one run.
NumReq == 2
\* Longest message, in whitespace-separated tokens.
MaxTokens == 3
\* Longest holder list fed to the classifier (one more than the top-10 slice).
MaxNodes == 11

\* ------------------------------------------------------- program constants

\* ThreadPoolExecutor(max_workers=4)
MaxWorkers == 4

SUPPORTED_CHAINS ==
    {"eth", "bsc", "ftm", "avax", "cro", "arbi", "poly", "base", "sol", "sonic"}

\* chain_map of get_market_data: internal chain code -> market-data slug.
chain_map ==
    [c \in {"eth", "bsc", "ftm", "avax", "poly", "arbi", "base", "cro"} |->
        CASE c = "eth"  -> "ethereum"
          [] c = "bsc"  -> "binance-smart-chain"
          [] c = "ftm"  -> "fantom"
          [] c = "avax" -> "avalanche"
          [] c = "poly" -> "polygon-pos"
          [] c = "arbi" -> "arbitrum-one"
          [] c = "base" -> "base"
          [] c = "cro"  -> "cronos"]

\* ------------------------------------------------------------------ inputs

Reqs == 1..NumReq

\* First tokens of a message (the handler never inspects the first token).
Addresses == {"0xAb", "0xCd"}

\* Second tokens of a message: chain codes in either case, and a foreign word.
Words == {"eth", "ETH", "sol", "sonic", "doge"}
\* Third and later tokens of a message (the handler only counts them).
Trailing == {"eth", "doge"}

\* update.message.text.strip().split(): the message as its token list, of
\* zero to MaxTokens tokens.
Messages ==
    {<<>>} \cup {<<a>> : a \in Addresses}
    \cup UNION {{<<a, w>> \o t : t \in [1..(n - 2) -> Trailing]} :
                   a \in Addresses, w \in Words, n \in 2..MaxTokens}

\* Lower with the case folding forgotten.
LowerForgotten(s) == s

\* str.lower() on the tokens above.
Lower(s) ==
    CASE s = "ETH"  -> "eth"
      [] s = "0xAb" -> "0xab"
      [] s = "0xCd" -> "0xcd"
      [] OTHER      -> s

\* Percentages a holder record may carry in the classifier runs.
Pcts == {0, 10}

\* Holder lists the mapping service returns in the handler runs.
HolderLists == {<<>>, <<60>>, <<50, 30, 15>>, <<10, 10, 10>>}

Fields == {"price", "market_cap", "volume", "price_change_24h"}

\* What the mapping service answers: a status, and for 200 a JSON body that
\* either fails to parse or is an object with or without a "nodes" list.
TokenReplies ==
    {[status |-> s, json |-> FALSE, hasNodes |-> FALSE, nodes |-> <<>>] :
        s \in {0, 200, 401, 404, 500}}
    \cup {[status |-> 200, json |-> TRUE, hasNodes |-> FALSE, nodes |-> <<>>]}
    \cup {[status |-> 200, json |-> TRUE, hasNodes |-> TRUE, nodes |-> l] : l \in HolderLists}

\* What the market-data service answers: a status (0: the request raised),
\* and for 200 a JSON body (or none) holding some of the four fields.
MarketReplies ==
    {[status |-> s, json |-> FALSE, has |-> {}] : s \in {0, 200, 500}}
    \cup {[status |-> 200, json |-> TRUE, has |-> S] : S \in SUBSET Fields}

\* What the browser does: the screenshot is saved, save_screenshot returns
\* False without writing the file, or the driver raises.
ShotOutcomes == {"saved", "notsaved", "raise"}

\* ---------------------------------------------------------- pure functions

NoToken == [present |-> FALSE, token_address |-> "None", hasNodes |-> FALSE, nodes |-> <<>>]

NoMarket == [present |-> FALSE, fields |-> [f \in Fields |-> "null"]]

NoPath == <<>>

\* screenshot_path = f"temp_{contract_address}.png"
TempPath(contract_address) == <<"temp_", contract_address, ".png">>

\* get_token_data after the request returned or raised (status 0): 401 and
\* 404 return None, raise_for_status() and response.json() raise into the
\* except clause, and a parsed body is returned with token_address added.
TokenResult(reply, contract_address) ==
    IF reply.status = 0 THEN NoToken
    ELSE IF reply.status = 401 THEN NoToken
    ELSE IF reply.status = 404 THEN NoToken
    ELSE IF reply.status >= 400 THEN NoToken
    ELSE IF ~reply.json THEN NoToken
    ELSE [present |-> TRUE, token_address |-> contract_address,
          hasNodes |-> reply.hasNodes, nodes |-> reply.nodes]

\* get_market_data before it awaits anything: TRUE when it returns None at
\* once ('sol', or a chain with no slug in chain_map).
MarketShortCircuit(chain) == chain = "sol" \/ chain \notin DOMAIN chain_map

\* get_market_data after the request returned or raised: anything but a
\* parsed 200 is None; each of the four fields is the body's value or None.
MarketResult(reply) ==
    IF reply.status = 0 THEN NoMarket
    ELSE IF reply.status # 200 THEN NoMarket
    ELSE IF ~reply.json THEN NoMarket
    ELSE [present |-> TRUE,
          fields |-> [f \in Fields |-> IF f \in reply.has THEN "num" ELSE "null"]]

RECURSIVE SumSeq(_)
SumSeq(s) == IF s = <<>> THEN 0 ELSE Head(s) + SumSeq(Tail(s))

\* Top10 with the slice forgotten: every record is summed.
Top10Unsliced(nodes) == nodes

\* nodes[:10]
Top10(nodes) == SubSeq(nodes, 1, IF Len(nodes) < 10 THEN Len(nodes) ELSE 10)

\* sum(node.get('percentage', 0) for node in nodes[:10]); a holder record is
\* modelled by its percentage.
Top10Percentage(nodes) == SumSeq(Top10(nodes))

\* analyze_decentralization with the two middle buckets' scores exchanged.
analyze_decentralization_swapped(nodes) ==
    IF nodes = <<>> \/ Len(nodes) < 3
    THEN [score |-> 0, description |-> "Insufficient data for analysis"]
    ELSE LET top10_percentage == Top10Percentage(nodes) IN
         IF top10_percentage > 90
         THEN [score |-> 1, description |-> "Very low decentralization"]
         ELSE IF top10_percentage > 70
         THEN [score |-> 3, description |-> "Medium decentralization"]
         ELSE IF top10_percentage > 50
         THEN [score |-> 2, description |-> "Low decentralization"]
         ELSE IF top10_percentage > 30
         THEN [score |-> 4, description |-> "High decentralization"]
         ELSE [score |-> 5, description |-> "Very high decentralization"]

analyze_decentralization(nodes) ==
    IF nodes = <<>> \/ Len(nodes) < 3
    THEN [score |-> 0, description |-> "Insufficient data for analysis"]
    ELSE LET top10_percentage == Top10Percentage(nodes) IN
         IF top10_percentage > 90
         THEN [score |-> 1, description |-> "Very low decentralization"]
         ELSE IF top10_percentage > 70
         THEN [score |-> 2, description |-> "Low decentralization"]
         ELSE IF top10_percentage > 50
         THEN [score |-> 3, description |-> "Medium decentralization"]
         ELSE IF top10_percentage > 30
         THEN [score |-> 4, description |-> "High decentralization"]
         ELSE [score |-> 5, description |-> "Very high decentralization"]

HeaderBlock(token_data) ==
    [block |-> "header", address |-> token_data.token_address, percentage |-> 0, score |-> 0]

MarketBlock == [block |-> "market", address |-> "None", percentage |-> 0, score |-> 0]

HolderBlock(nodes) ==
    [block |-> "holder", address |-> "None", percentage |-> nodes[1],
     score |-> analyze_decentralization(nodes).score]

\* f"{value:,.6f}" and the like raise TypeError on None: the market block
\* formats all four fields as numbers.
MarketFormatRaises(market_data) == \E f \in Fields : market_data.fields[f] = "null"

\* Compose with the holder block nested under "if market_data".
ComposeHolderUnderMarket(token_data, market_data) ==
    LET header == <<HeaderBlock(token_data)>>
        holder == IF token_data.hasNodes /\ token_data.nodes # <<>>
                  THEN <<HolderBlock(token_data.nodes)>> ELSE <<>>
    IN  IF market_data.present /\ MarketFormatRaises(market_data)
        THEN [raised |-> TRUE, lines |-> <<>>]
        ELSE [raised |-> FALSE,
              lines |-> IF market_data.present
                        THEN header \o <<MarketBlock>> \o holder ELSE header]

\* "if not token_data" with the test left out.
TokenMissingUnchecked(token_data) == FALSE

\* if not token_data
TokenMissing(token_data) == ~token_data.present

\* "Form response" of handle_contract: the header, the market block when
\* market_data is truthy, the holder block when token_data has a non-empty
\* 'nodes'. raised = TRUE when formatting raises.
Compose(token_data, market_data) ==
    LET header == <<HeaderBlock(token_data)>>
        withMarket == IF market_data.present THEN header \o <<MarketBlock>> ELSE header
        withHolder == IF token_data.hasNodes /\ token_data.nodes # <<>>
                      THEN withMarket \o <<HolderBlock(token_data.nodes)>>
                      ELSE withMarket
    IN  IF market_data.present /\ MarketFormatRaises(market_data)
        THEN [raised |-> TRUE, lines |-> <<>>]
        ELSE [raised |-> FALSE, lines |-> withHolder]

\* len(text) != 2 or text[1].lower() not in SUPPORTED_CHAINS
Invalid(words) ==
    IF Len(words) # 2 THEN TRUE ELSE Lower(words[2]) \notin SUPPORTED_CHAINS

\* ------------------------------------------------------------------- state

VARIABLES
    pc,               \* per update: where its handle_contract coroutine stands
    text,             \* per update: update.message.text.strip().split()
    contract_address, \* per handler: local contract_address
    chain,            \* per handler: local chain (lower-cased)
    task,             \* per handler: the three fetches of asyncio.gather
    token_data,       \* per handler: result of get_token_data
    market_data,      \* per handler: result of get_market_data / asyncio.sleep(0)
    screenshot_path,  \* per handler: result of generate_screenshot
    response,         \* per handler: the composed message lines
    replies,          \* per update: the reply_text / reply_photo calls made, in order
    raisedAt,         \* per update: the step of handle_contract that first raised
    escaped,          \* per update: an exception left handle_contract
    created,          \* per update: files written by its generate_screenshot
    files,            \* the working directory: temp files that exist
    DRIVER,           \* the global Selenium driver
    nodes,            \* classifier runs: the holder list under analysis
    verdict,          \* classifier runs: analyze_decentralization(nodes), once called
    prev              \* classifier runs: top-10 sum, length and score of the list before

handlerVars ==
    <<pc, text, contract_address, chain, task, token_data, market_data,
      screenshot_path, response, replies, raisedAt, escaped, created, files, DRIVER>>

classifierVars == <<nodes, verdict, prev>>

vars == <<handlerVars, classifierVars>>

NoTasks == [token |-> "none", market |-> "none", shot |-> "none"]

NoVerdict == [called |-> FALSE, score |-> 0, description |-> "None"]

NoPrev == [set |-> FALSE, sum |-> 0, len |-> 0, score |-> 0]

Init ==
    /\ pc = [r \in Reqs |-> "waiting"]
    /\ text = [r \in Reqs |-> <<>>]
    /\ contract_address = [r \in Reqs |-> "None"]
    /\ chain = [r \in Reqs |-> "None"]
    /\ task = [r \in Reqs |-> NoTasks]
    /\ token_data = [r \in Reqs |-> NoToken]
    /\ market_data = [r \in Reqs |-> NoMarket]
    /\ screenshot_path = [r \in Reqs |-> NoPath]
    /\ response = [r \in Reqs |-> <<>>]
    /\ replies = [r \in Reqs |-> <<>>]
    /\ raisedAt = [r \in Reqs |-> "none"]
    /\ escaped = [r \in Reqs |-> FALSE]
    /\ created = [r \in Reqs |-> {}]
    /\ files = {}
    /\ DRIVER = "None"
    /\ nodes = <<>>
    /\ verdict = NoVerdict
    /\ prev = NoPrev

\* A reply_text / reply_photo call: what was sent, whether the call returned
\* (ok) or raised, and the composed lines it carried.
Reply(kind, ok, body) == [kind |-> kind, ok |-> ok, body |-> body]

\* Worker threads of IO_EXECUTOR that are running a submitted callable.
Busy ==
    Cardinality({<<r, k>> \in Reqs \X {"token", "market", "shot"} : task[r][k] = "running"})

\* ------------------------------------------------------------- dispatching

\* The dispatch with concurrent_updates switched on: a handler is started
\* whatever the others are doing.
ConcurrentUpdates(r) == TRUE

\* Application.builder()...build() without concurrent_updates, and a
\* MessageHandler registered blocking: the application awaits one update's
\* handler before it takes the next update from the queue.
NoHandlerRunning(r) == \A q \in Reqs \ {r} : pc[q] \in {"waiting", "done", "gone"}

\* The application takes update r, a text message, from the queue (in arrival
\* order) and calls handle_contract; the frames of handlers that returned are
\* released.
ProcessUpdate(r, msg) ==
    /\ pc[r] = "waiting"
    /\ \A q \in Reqs : q < r => pc[q] # "waiting"
    /\ NoHandlerRunning(r)
    /\ LET gone == {q \in Reqs : pc[q] = "done"}
           Keep(f, fresh) == [q \in Reqs |-> IF q \in gone THEN fresh ELSE f[q]]
       IN  /\ pc' = [q \in Reqs |-> IF q = r THEN "start"
                                     ELSE IF q \in gone THEN "gone" ELSE pc[q]]
           /\ text' = [Keep(text, <<>>) EXCEPT ![r] = msg]
           /\ contract_address' = Keep(contract_address, "None")
           /\ chain' = Keep(chain, "None")
           /\ task' = Keep(task, NoTasks)
           /\ token_data' = Keep(token_data, NoToken)
           /\ market_data' = Keep(market_data, NoMarket)
           /\ screenshot_path' = Keep(screenshot_path, NoPath)
           /\ response' = Keep(response, <<>>)
           /\ replies' = Keep(replies, <<>>)
           /\ raisedAt' = Keep(raisedAt, "none")
           /\ escaped' = Keep(escaped, FALSE)
           /\ created' = Keep(created, {})
    /\ UNCHANGED <<files, DRIVER, classifierVars>>

\* ---------------------------------------------------------- handle_contract

\* Lines 182-189: the message is invalid; the usage message is sent and the
\* handler returns. The reply is outside the try block: if it raises, the
\* exception leaves the handler.
Reject(r, ok) ==
    /\ pc[r] = "start"
    /\ Invalid(text[r])
    /\ replies' = [replies EXCEPT ![r] = Append(@, Reply("usage", ok, <<>>))]
    /\ raisedAt' = [raisedAt EXCEPT ![r] = IF ok THEN @ ELSE "usage"]
    /\ escaped' = [escaped EXCEPT ![r] = ~ok]
    /\ pc' = [pc EXCEPT ![r] = "done"]
    /\ UNCHANGED <<text, contract_address, chain, task, token_data, market_data,
                   screenshot_path, response, created, files, DRIVER, classifierVars>>

\* Lines 191-203: the message is valid; contract_address and chain are bound,
\* the acknowledgement is sent (outside the try block), and asyncio.gather
\* starts the three fetches. get_token_data and generate_screenshot submit
\* their blocking call to IO_EXECUTOR; the market fetch is asyncio.sleep(0)
\* for 'sol', returns None at once for a chain without a slug, and submits
\* its call otherwise.
Ack(r, ok) ==
    /\ pc[r] = "start"
    /\ ~Invalid(text[r])
    /\ contract_address' = [contract_address EXCEPT ![r] = text[r][1]]
    /\ chain' = [chain EXCEPT ![r] = Lower(text[r][2])]
    /\ replies' = [replies EXCEPT ![r] = Append(@, Reply("ack", ok, <<>>))]
    /\ raisedAt' = [raisedAt EXCEPT ![r] = IF ok THEN @ ELSE "ack"]
    /\ escaped' = [escaped EXCEPT ![r] = ~ok]
    /\ pc' = [pc EXCEPT ![r] = IF ok THEN "gather" ELSE "done"]
    /\ task' = [task EXCEPT ![r] =
                  IF ~ok THEN @
                  ELSE [token  |-> "queued",
                        market |-> IF chain'[r] = "sol" \/ MarketShortCircuit(chain'[r])
                                   THEN "done" ELSE "queued",
                        shot   |-> "queued"]]
    /\ UNCHANGED <<text, token_data, market_data, screenshot_path, response,
                   created, files, DRIVER, classifierVars>>

\* A worker thread of IO_EXECUTOR picks up the requests.get of get_token_data
\* (k = "token") or of get_market_data (k = "market").
StartRequest(r, k) ==
    /\ k \in {"token", "market"}
    /\ task[r][k] = "queued"
    /\ Busy < MaxWorkers
    /\ task' = [task EXCEPT ![r][k] = "running"]
    /\ UNCHANGED <<pc, text, contract_address, chain, token_data, market_data,
                   screenshot_path, response, replies, raisedAt, escaped, created,
                   files, DRIVER, classifierVars>>

\* get_token_data resumes with the mapping service's answer.
FinishToken(r, reply) ==
    /\ task[r].token = "running"
    /\ token_data' = [token_data EXCEPT ![r] = TokenResult(reply, contract_address[r])]
    /\ task' = [task EXCEPT ![r].token = "done"]
    /\ UNCHANGED <<pc, text, contract_address, chain, market_data, screenshot_path,
                   response, replies, raisedAt, escaped, created, files, DRIVER,
                   classifierVars>>

\* get_market_data resumes with the market-data service's answer.
FinishMarket(r, reply) ==
    /\ task[r].market = "running"
    /\ market_data' = [market_data EXCEPT ![r] = MarketResult(reply)]
    /\ task' = [task EXCEPT ![r].market = "done"]
    /\ UNCHANGED <<pc, text, contract_address, chain, token_data, screenshot_path,
                   response, replies, raisedAt, escaped, created, files, DRIVER,
                   classifierVars>>

\* A worker thread starts _take_screenshot: init_driver() creates the global
\* driver when there is none (and may raise doing so: generate_screenshot
\* then returns None), and driver.get() begins.
StartScreenshot(r, initOk) ==
    /\ task[r].shot = "queued"
    /\ Busy < MaxWorkers
    /\ DRIVER # "None" => initOk
    /\ IF initOk
       THEN /\ DRIVER' = "chrome"
            /\ task' = [task EXCEPT ![r].shot = "running"]
       ELSE /\ DRIVER' = DRIVER
            /\ task' = [task EXCEPT ![r].shot = "done"]
    /\ UNCHANGED <<pc, text, contract_address, chain, token_data, market_data,
                   screenshot_path, response, replies, raisedAt, escaped, created,
                   files, classifierVars>>

\* _take_screenshot ends: the page was loaded and save_screenshot wrote the
\* file, or returned False without writing it, or the driver raised.
FinishScreenshot(r, outcome) ==
    /\ task[r].shot = "running"
    /\ LET path == TempPath(contract_address[r]) IN
       /\ screenshot_path' = [screenshot_path EXCEPT ![r] =
                                 IF outcome = "raise" THEN NoPath ELSE path]
       /\ files' = IF outcome = "saved" THEN files \cup {path} ELSE files
       /\ created' = [created EXCEPT ![r] = IF outcome = "saved" THEN @ \cup {path} ELSE @]
    /\ task' = [task EXCEPT ![r].shot = "done"]
    /\ UNCHANGED <<pc, text, contract_address, chain, token_data, market_data,
                   response, replies, raisedAt, escaped, DRIVER, classifierVars>>

\* A join that waits for the holder data alone.
JoinedTokenOnly(r) == task[r].token = "done"

\* asyncio.gather returns only when all three fetches have.
Joined(r) == \A k \in {"token", "market", "shot"} : task[r][k] = "done"

\* Lines 199-240: the join, the test of token_data, and the composition.
Join(r) ==
    /\ pc[r] = "gather"
    /\ Joined(r)
    /\ IF TokenMissing(token_data[r])
       THEN /\ pc' = [pc EXCEPT ![r] = "nomap"]
            /\ UNCHANGED <<response, raisedAt>>
       ELSE LET c == Compose(token_data[r], market_data[r]) IN
            IF c.raised
            THEN /\ pc' = [pc EXCEPT ![r] = "error"]
                 /\ raisedAt' = [raisedAt EXCEPT ![r] = "compose"]
                 /\ UNCHANGED response
            ELSE /\ pc' = [pc EXCEPT ![r] =
                             IF screenshot_path[r] # NoPath THEN "send_photo" ELSE "send_text"]
                 /\ response' = [response EXCEPT ![r] = c.lines]
                 /\ UNCHANGED raisedAt
    /\ UNCHANGED <<text, contract_address, chain, task, token_data, market_data,
                   screenshot_path, replies, escaped, created, files, DRIVER,
                   classifierVars>>

\* Lines 205-207: "Map not computed or error occurred." and return.
NoMapReply(r, ok) ==
    /\ pc[r] = "nomap"
    /\ replies' = [replies EXCEPT ![r] = Append(@, Reply("nomap", ok, <<>>))]
    /\ raisedAt' = [raisedAt EXCEPT ![r] = IF ok THEN @ ELSE "nomap"]
    /\ pc' = [pc EXCEPT ![r] = IF ok THEN "done" ELSE "error"]
    /\ UNCHANGED <<text, contract_address, chain, task, token_data, market_data,
                   screenshot_path, response, escaped, created, files, DRIVER,
                   classifierVars>>

\* Lines 243-249: open the file (raises when it was never written), send it
\* with the composed caption, and in the finally clause remove it if it
\* exists (os.remove may raise).
SendPhoto(r, sendOk, removeOk) ==
    /\ pc[r] = "send_photo"
    /\ IF screenshot_path[r] \notin files
       THEN /\ sendOk /\ removeOk
            /\ raisedAt' = [raisedAt EXCEPT ![r] = "open"]
            /\ pc' = [pc EXCEPT ![r] = "error"]
            /\ UNCHANGED <<replies, files>>
       ELSE /\ replies' = [replies EXCEPT ![r] = Append(@, Reply("photo", sendOk, response[r]))]
            /\ files' = IF removeOk THEN files \ {screenshot_path[r]} ELSE files
            /\ raisedAt' = [raisedAt EXCEPT ![r] =
                               IF ~sendOk THEN "photo" ELSE IF ~removeOk THEN "remove" ELSE @]
            /\ pc' = [pc EXCEPT ![r] = IF sendOk /\ removeOk THEN "done" ELSE "error"]
    /\ UNCHANGED <<text, contract_address, chain, task, token_data, market_data,
                   screenshot_path, response, escaped, created, DRIVER, classifierVars>>

\* Lines 250-251: no screenshot, the composed text is sent alone.
SendText(r, ok) ==
    /\ pc[r] = "send_text"
    /\ replies' = [replies EXCEPT ![r] = Append(@, Reply("text", ok, response[r]))]
    /\ raisedAt' = [raisedAt EXCEPT ![r] = IF ok THEN @ ELSE "text"]
    /\ pc' = [pc EXCEPT ![r] = IF ok THEN "done" ELSE "error"]
    /\ UNCHANGED <<text, contract_address, chain, task, token_data, market_data,
                   screenshot_path, response, escaped, created, files, DRIVER,
                   classifierVars>>

\* Lines 253-255: the except clause sends "Error processing request..."; if
\* that reply raises too, the exception leaves the handler.
ErrorReply(r, ok) ==
    /\ pc[r] = "error"
    /\ replies' = [replies EXCEPT ![r] = Append(@, Reply("error", ok, <<>>))]
    /\ escaped' = [escaped EXCEPT ![r] = ~ok]
    /\ pc' = [pc EXCEPT ![r] = "done"]
    /\ UNCHANGED <<text, contract_address, chain, task, token_data, market_data,
                   screenshot_path, response, raisedAt, created, files, DRIVER,
                   classifierVars>>

Next ==
    \E r \in Reqs :
        \/ \E msg \in Messages : ProcessUpdate(r, msg)
        \/ \E ok \in BOOLEAN : Reject(r, ok)
        \/ \E ok \in BOOLEAN : Ack(r, ok)
        \/ \E k \in {"token", "market"} : StartRequest(r, k)
        \/ \E reply \in TokenReplies : FinishToken(r, reply)
        \/ \E reply \in MarketReplies : FinishMarket(r, reply)
        \/ \E initOk \in BOOLEAN : StartScreenshot(r, initOk)
        \/ \E outcome \in ShotOutcomes : FinishScreenshot(r, outcome)
        \/ Join(r)
        \/ \E ok \in BOOLEAN : NoMapReply(r, ok)
        \/ \E sendOk, removeOk \in BOOLEAN : SendPhoto(r, sendOk, removeOk)
        \/ \E ok \in BOOLEAN : SendText(r, ok)
        \/ \E ok \in BOOLEAN : ErrorReply(r, ok)

Spec == Init /\ [][Next]_vars

\* ------------------------------------------------------- classifier runs

\* A holder record is appended to the list the mapping service will return.
AddHolder(p) ==
    /\ ~verdict.called
    /\ Len(nodes) < MaxNodes
    /\ nodes' = Append(nodes, p)
    /\ UNCHANGED <<verdict, prev, handlerVars>>

\* analyze_decentralization(nodes) is called and returns.
Analyze ==
    /\ ~verdict.called
    /\ verdict' = [called |-> TRUE,
                   score |-> analyze_decentralization(nodes).score,
                   description |-> analyze_decentralization(nodes).description]
    /\ UNCHANGED <<nodes, prev, handlerVars>>

\* The analysed list is set aside (its top-10 sum, whether it has at least
\* three records, and its score are remembered) and another list begins.
NextList ==
    /\ verdict.called
    /\ prev' = [set |-> TRUE,
                sum |-> SumSeq(SubSeq(nodes, 1, IF Len(nodes) < 10 THEN Len(nodes) ELSE 10)),
                len |-> IF Len(nodes) < 3 THEN Len(nodes) ELSE 3,
                score |-> verdict.score]
    /\ nodes' = <<>>
    /\ verdict' = NoVerdict
    /\ UNCHANGED handlerVars

NextClassify ==
    \/ \E p \in Pcts : AddHolder(p)
    \/ Analyze
    \/ NextList

SpecClassify == Init /\ [][NextClassify]_vars

\* -------------------------------------------------------------- properties

ReplyKinds(r) == [i \in DOMAIN replies[r] |-> replies[r][i].kind]

\* The terminal replies of a request: everything but the usage message and
\* the acknowledgement.
TerminalKind(kind) == kind \in {"nomap", "photo", "text", "error"}

TerminalReplies(r) == SelectSeq(replies[r], LAMBDA m : TerminalKind(m.kind))

\* All three fetches of request r have resolved, to a value or to absence.
Gathered(r) == task[r].token = "done" /\ task[r].market = "done" /\ task[r].shot = "done"

\* The handler of request r has gone past the join and the composition.
PastJoin(r) == Gathered(r) /\ pc[r] \in {"nomap", "send_photo", "send_text", "error", "done"}

Blocks(lines) == [i \in DOMAIN lines |-> lines[i].block]

\* C1: once handle_contract has finished a request, no temporary file that
\* generate_screenshot created for it exists any more.
C1_TempFileRemoved ==
    \A r \in Reqs : pc[r] = "done" => created[r] \cap files = {}

\* C2 as stated: when get_token_data resolved to absence, every terminal
\* reply delivered to the user is the "Map not computed" message, no composed
\* content is sent and reply_photo is never called.
C2_OnlyNoMapReply ==
    \A r \in Reqs :
        (task[r].token = "done" /\ ~token_data[r].present)
            => \A i \in DOMAIN replies[r] :
                   /\ replies[r][i].body = <<>>
                   /\ replies[r][i].kind # "photo"
                   /\ (TerminalKind(replies[r][i].kind) /\ replies[r][i].ok)
                          => replies[r][i].kind = "nomap"

\* C2 amended: when get_token_data resolved to absence, no composed content
\* is ever sent and reply_photo is never called; the finished request's
\* terminal replies are the "Map not computed" message alone, or, when that
\* send raised, that attempt followed by the "Error processing request"
\* message.
C2_NoMapOrErrorReply ==
    \A r \in Reqs :
        (task[r].token = "done" /\ ~token_data[r].present)
            => /\ \A i \in DOMAIN replies[r] :
                      replies[r][i].body = <<>> /\ replies[r][i].kind \notin {"photo", "text"}
               /\ pc[r] = "done" =>
                      \/ /\ Len(TerminalReplies(r)) = 1
                         /\ TerminalReplies(r)[1] = Reply("nomap", TRUE, <<>>)
                      \/ /\ Len(TerminalReplies(r)) = 2
                         /\ TerminalReplies(r)[1] = Reply("nomap", FALSE, <<>>)
                         /\ TerminalReplies(r)[2].kind = "error"

\* C2 witness: a finished request whose holder data was absent while market
\* data and a saved screenshot were present, answered by "Map not computed".
C2_Witness ==
    \E r \in Reqs :
        /\ pc[r] = "done" /\ Gathered(r)
        /\ ~token_data[r].present
        /\ market_data[r].present
        /\ screenshot_path[r] \in files
        /\ TerminalReplies(r) = <<Reply("nomap", TRUE, <<>>)>>

\* Tokens that differ in case only.
CaseClasses == {{"eth", "ETH"}, {"0xab", "0xAb"}, {"0xcd", "0xCd"}}

SameIgnoringCase(a, b) == a = b \/ \E cls \in CaseClasses : {a, b} \subseteq cls

\* The supported chains a token names when case is ignored.
ChainsNamed(tok) == {c \in SUPPORTED_CHAINS : SameIgnoringCase(tok, c)}

\* C3: a message is accepted exactly when it has two tokens and the second
\* names a supported chain ignoring case (the chain is then that supported
\* chain); any other message gets the usage message and nothing else: no
\* fetch is started and the browser is not used.
C3_Validation ==
    \A r \in Reqs :
        pc[r] \notin {"waiting", "start", "gone"} =>
            LET valid == Len(text[r]) = 2 /\ ChainsNamed(text[r][2]) # {} IN
            /\ valid <=> (replies[r] # <<>> /\ replies[r][1].kind = "ack")
            /\ valid => chain[r] \in ChainsNamed(text[r][2])
            /\ ~valid => /\ ReplyKinds(r) = <<"usage">>
                         /\ task[r] = NoTasks
                         /\ token_data[r] = NoToken /\ market_data[r] = NoMarket
                         /\ screenshot_path[r] = NoPath /\ created[r] = {}
                         /\ pc[r] = "done"

\* C3 witness: "<addr> ETH" was accepted with chain eth and its fetches run.
C3_Witness ==
    \E r \in Reqs :
        /\ Len(text[r]) = 2 /\ text[r][2] = "ETH"
        /\ chain[r] = "eth"
        /\ pc[r] = "gather"
        /\ task[r].market = "running"

\* C4: with holder data present and market data absent, the composition
\* succeeds, and the composed message is the header block followed by the
\* holder block exactly when the holder list is non-empty, with no market
\* block; every composed reply carries that message. Market data is absent
\* for sol, for a chain without a slug, for a non-200 status and for an
\* exception.
C4_NoMarketBlock ==
    /\ \A r \in Reqs :
        (PastJoin(r) /\ token_data[r].present /\ ~market_data[r].present) =>
            /\ raisedAt[r] # "compose"
            /\ pc[r] # "nomap"
            /\ Blocks(response[r]) =
                   IF token_data[r].hasNodes /\ token_data[r].nodes # <<>>
                   THEN <<"header", "holder">> ELSE <<"header">>
            /\ \A i \in DOMAIN replies[r] :
                   replies[r][i].kind \in {"photo", "text"} => replies[r][i].body = response[r]
    /\ \A r \in Reqs :
        (Gathered(r) /\ chain[r] \in {"sol", "sonic"}) => ~market_data[r].present
    /\ \A reply \in MarketReplies :
        (reply.status # 200 \/ ~reply.json) => ~MarketResult(reply).present

\* C4 witness: a sonic token with three holders answered, without a
\* screenshot, by a text of header and holder block.
C4_Witness ==
    \E r \in Reqs :
        /\ pc[r] = "done" /\ chain[r] = "sonic"
        /\ token_data[r].present /\ Len(token_data[r].nodes) = 3
        /\ ~market_data[r].present
        /\ Blocks(response[r]) = <<"header", "holder">>
        /\ TerminalReplies(r) = <<Reply("text", TRUE, response[r])>>

\* C7: a terminal reply is made only once the holder-data fetch and the
\* visualization fetch have both resolved, and a request whose market data
\* resolved to absence still gets a terminal reply call before it finishes.
C7_ReplyAfterJoin ==
    \A r \in Reqs :
        /\ TerminalReplies(r) # <<>> => task[r].token = "done" /\ task[r].shot = "done"
        /\ (pc[r] = "done" /\ Gathered(r) /\ ~market_data[r].present)
               => TerminalReplies(r) # <<>>

\* C7 witness: an eth request whose market fetch ran and resolved to absence
\* got its composed photo.
C7_Witness ==
    \E r \in Reqs :
        /\ pc[r] = "done" /\ chain[r] = "eth"
        /\ token_data[r].present /\ ~market_data[r].present
        /\ TerminalReplies(r) = <<Reply("photo", TRUE, response[r])>>

\* C8: an exception raised anywhere in handle_contract does not leave the
\* handler and ends in exactly one delivered "Error processing request"
\* message.
C8_ExceptionsContained ==
    \A r \in Reqs :
        (pc[r] = "done" /\ raisedAt[r] # "none") =>
            /\ ~escaped[r]
            /\ Len(SelectSeq(replies[r], LAMBDA m : m.kind = "error" /\ m.ok)) = 1

\* C9: at most one screenshot task uses the shared driver at a time.
C9_DriverExclusive ==
    Cardinality({r \in Reqs : task[r].shot = "running"}) <= 1

\* C9 witness: the second request's screenshot task is using the driver
\* after the first request's screenshot was taken (its file is still there).
C9_Witness ==
    /\ task[2].shot = "running"
    /\ pc[1] = "gone"
    /\ DRIVER = "chrome"
    /\ files # {}

\* C10: a 200 answer with fields missing gives a snapshot with null in
\* exactly those fields, and with holder data present the composition of the
\* response does not fail.
C10_MissingFieldsTolerated ==
    /\ \A reply \in MarketReplies :
        (reply.status = 200 /\ reply.json) =>
            /\ MarketResult(reply).present
            /\ \A f \in Fields : (MarketResult(reply).fields[f] = "null") <=> (f \notin reply.has)
    /\ \A r \in Reqs :
        (PastJoin(r) /\ token_data[r].present /\ market_data[r].present) =>
            raisedAt[r] # "compose"

\* The top-10 sum a claim speaks of: the first ten percentages, by index.
RECURSIVE SumFirst(_, _)
SumFirst(l, n) == IF n = 0 THEN 0 ELSE l[n] + SumFirst(l, n - 1)

RefTop10Sum(l) == SumFirst(l, IF Len(l) > 10 THEN 10 ELSE Len(l))

\* C5 as stated: for any two holder lists, a top-10 sum at least as large
\* gives a score at most as large; the score is one of 0..5.
C5_MonotoneAnyLists ==
    /\ verdict.called => verdict.score \in 0..5
    /\ (verdict.called /\ prev.set) =>
           /\ RefTop10Sum(nodes) >= prev.sum => verdict.score <= prev.score
           /\ prev.sum >= RefTop10Sum(nodes) => prev.score <= verdict.score

\* C5 amended: the score is always one of 0..5, and for any two holder lists
\* of at least three records each, a top-10 sum at least as large gives a
\* score at most as large.
C5_MonotoneLongLists ==
    /\ verdict.called => verdict.score \in 0..5
    /\ (verdict.called /\ prev.set /\ Len(nodes) >= 3 /\ prev.len >= 3) =>
           /\ RefTop10Sum(nodes) >= prev.sum => verdict.score <= prev.score
           /\ prev.sum >= RefTop10Sum(nodes) => prev.score <= verdict.score

\* C5 witness: two lists of at least three records, the second with the
\* larger top-10 sum and the strictly smaller score.
C5_Witness ==
    /\ verdict.called /\ prev.set
    /\ Len(nodes) >= 3 /\ prev.len >= 3
    /\ RefTop10Sum(nodes) > prev.sum
    /\ verdict.score < prev.score

\* The reference classification of C6.
RefScore(l) ==
    IF Len(l) < 3 THEN 0
    ELSE LET S == RefTop10Sum(l) IN
         CASE S > 90 -> 1
           [] 70 < S /\ S <= 90 -> 2
           [] 50 < S /\ S <= 70 -> 3
           [] 30 < S /\ S <= 50 -> 4
           [] S <= 30 -> 5

\* C6: analyze_decentralization agrees with the reference on every list:
\* score 0 below three records, else the bucket of the sum of the first ten
\* percentages with a sum at a threshold in the lower-concentration bucket;
\* records after the tenth do not change the score.
C6_AgreesWithReference ==
    verdict.called =>
        /\ verdict.score = RefScore(nodes)
        /\ Len(nodes) > 10 => verdict.score = RefScore(SubSeq(nodes, 1, 10))

\* C6 witness: eleven records whose first ten sum to exactly 90 and whose
\* eleventh is not zero, scored 2.
C6_Witness ==
    /\ verdict.called
    /\ Len(nodes) = 11 /\ nodes[11] > 0
    /\ RefTop10Sum(nodes) = 90
    /\ verdict.score = 2

====
